---- MODULE Spec2Model ----
(***************************************************************************)
(* A model of the spreadsheet-backed todo store (sheets_client.py): the    *)
(* worksheet grid and the gspread calls made on it, the header/migration   *)
(* manager, the row codec, the CRUD operations, the reminder selector and  *)
(* the web handlers that call them (app.py, line_client.py).               *)
(*                                                                         *)
(* The service works on several requests at a time and every store call is *)
(* a round trip to the spreadsheet.  A request is therefore a sequence of  *)
(* steps, one per round trip, clock read, id draw or push, and the steps   *)
(* of two requests interleave.  The operators that give the result of a    *)
(* whole call (CreateTodo, FetchTodoById, ...) say what the call does when *)
(* nothing else touches the sheet meanwhile.                               *)
(*                                                                         *)
(* Conventions.  Every cell is a string.  The grid is kept the way the     *)
(* values API reports it: trailing empty cells of a row and trailing empty *)
(* rows are not stored.  Column and row indices are 1-based here; the      *)
(* Python code is 0-based for columns inside a row list and 1-based for    *)
(* sheet rows.  The clock is read at whole hours; reading n is n hours     *)
(* after 2026-01-01T00:00:00 UTC.  A timestamp text may carry minutes, and *)
(* parsed timestamps are compared in minutes.  The USER_ENTERED            *)
(* re-interpretation that the spreadsheet service applies to typed values  *)
(* is outside the repository and is not modelled: a written string is      *)
(* stored as written.                                                      *)
(***************************************************************************)
EXTENDS Integers, Sequences, FiniteSets, TLC

VARIABLES sheet, clock, nextId, last, ens, ghost, calls

vars == <<sheet, clock, nextId, last, ens, ghost, calls>>

(***************************************************************************)
(* Bounds of the model                                                     *)
(***************************************************************************)
MaxInitRows == 2
MaxRuns == 2
MaxClock == 2
MaxCreates == 2
MaxReminderTodos == 1
MaxCallsAfterEdit == 2
MaxRequests == 3

(***************************************************************************)
(* Program constants                                                       *)
(***************************************************************************)
HEADERS ==
  <<"id", "title", "description", "priority", "status",
    "due_at", "created_at", "updated_at", "done_at", "last_reminded_at">>

OLD_TO_NEW == [body |-> "description", due_date |-> "due_at"]

VALID_PRIORITIES == {"High", "Medium", "Low"}
VALID_STATUSES == {"open", "done"}

\* UTC offset, in hours, of the default service timezone Asia/Tokyo.
TzOffset == 9

(***************************************************************************)
(* Small helpers                                                           *)
(***************************************************************************)
MaxOf(S) == CHOOSE m \in S : \A n \in S : n <= m

RangeOf(s) == {s[i] : i \in DOMAIN s}

\* dict.get(k, default)
Get(d, k, default) == IF k \in DOMAIN d THEN d[k] ELSE default

(***************************************************************************)
(* The worksheet grid and the gspread calls used by the code               *)
(***************************************************************************)
TrimRow(r) ==
  SubSeq(r, 1, MaxOf({0} \cup {i \in DOMAIN r : r[i] # ""}))

TrimGrid(g) ==
  LET t == [i \in DOMAIN g |-> TrimRow(g[i])]
  IN  SubSeq(t, 1, MaxOf({0} \cup {i \in DOMAIN t : t[i] # <<>>}))

CellAt(g, r, c) ==
  IF r \in DOMAIN g /\ c \in DOMAIN g[r] THEN g[r][c] ELSE ""

\* worksheet.row_values(n): the row without its trailing empty cells
RowValues(g, n) == IF n \in DOMAIN g THEN g[n] ELSE <<>>

GridWidth(g) == MaxOf({0} \cup {Len(g[i]) : i \in DOMAIN g})

\* worksheet.get_all_values(): all used rows, padded to a rectangle
GetAllValues(g) ==
  [r \in DOMAIN g |-> [c \in 1..GridWidth(g) |-> CellAt(g, r, c)]]

\* worksheet.clear()
ClearSheet == <<>>

\* worksheet.update("A{r0}:J{..}", rows): overwrites the cells of the range,
\* leaves every cell outside it as it was
UpdateRange(g, r0, rows) ==
  LET nrows == MaxOf({Len(g), r0 + Len(rows) - 1})
      inRange(r, c) == r >= r0 /\ r < r0 + Len(rows) /\ c <= Len(rows[r - r0 + 1])
      width(r) == MaxOf({Len(RowValues(g, r))}
                        \cup {Len(rows[k]) : k \in {k \in DOMAIN rows : k = r - r0 + 1}})
  IN  TrimGrid([r \in 1..nrows |->
        [c \in 1..width(r) |->
           IF inRange(r, c) THEN rows[r - r0 + 1][c] ELSE CellAt(g, r, c)]])

\* worksheet.append_row(row): one new row after the last used row
AppendRow(g, row) == TrimGrid(Append(g, row))

\* worksheet.update_cells(cells): cells is a set of <<row, col, value>>
UpdateCells(g, cells) ==
  LET nrows == MaxOf({Len(g)} \cup {t[1] : t \in cells})
      hit(r, c) == {t \in cells : t[1] = r /\ t[2] = c}
      width(r) == MaxOf({Len(RowValues(g, r))} \cup {t[2] : t \in {u \in cells : u[1] = r}})
  IN  TrimGrid([r \in 1..nrows |->
        [c \in 1..width(r) |->
           IF hit(r, c) # {} THEN (CHOOSE t \in hit(r, c) : TRUE)[3]
           ELSE CellAt(g, r, c)]])

(***************************************************************************)
(* Header / migration                                                      *)
(***************************************************************************)
\* {h: i for i, h in enumerate(names)}: a later column of the same name wins
IndexMap(names) ==
  [h \in RangeOf(names) |-> MaxOf({i \in DOMAIN names : names[i] = h})]

\* get_header_map: as IndexMap, without the empty names
GetHeaderMap(g) ==
  LET names == RowValues(g, 1)
  IN  [h \in RangeOf(names) \ {""} |-> MaxOf({i \in DOMAIN names : names[i] = h})]

NeedsMigration(current) ==
  /\ Len(current) >= 1
  /\ current[1] = "id"
  /\ \E old \in DOMAIN OLD_TO_NEW : old \in RangeOf(current)

\* next((ok for ok, nk in _OLD_TO_NEW.items() if nk == h), None); "" for None
OldNameOf(h) ==
  IF \E ok \in DOMAIN OLD_TO_NEW : OLD_TO_NEW[ok] = h
  THEN CHOOSE ok \in DOMAIN OLD_TO_NEW : OLD_TO_NEW[ok] = h
  ELSE ""

RowCell(row, i) == IF i \in DOMAIN row THEN row[i] ELSE ""

MigrateCellDefaultsFirst(h, row, old_idx) ==
  IF h = "priority" THEN "Medium"
  ELSE IF h = "status" THEN "open"
  ELSE IF h \in DOMAIN old_idx THEN RowCell(row, old_idx[h])
  ELSE IF OldNameOf(h) # "" /\ OldNameOf(h) \in DOMAIN old_idx
       THEN RowCell(row, old_idx[OldNameOf(h)])
  ELSE ""

\* the body of the loop over HEADERS for one row
MigrateCell(h, row, old_idx) ==
  IF OldNameOf(h) # "" /\ OldNameOf(h) \in DOMAIN old_idx
  THEN RowCell(row, old_idx[OldNameOf(h)])
  ELSE IF h \in DOMAIN old_idx THEN RowCell(row, old_idx[h])
  ELSE IF h = "priority" THEN "Medium"
  ELSE IF h = "status" THEN "open"
  ELSE ""

\* all_values -> migrated (the data rows under the new headers)
Migrate(all_values) ==
  LET old_idx == IndexMap(all_values[1])
      data_rows == Tail(all_values)
  IN  [r \in DOMAIN data_rows |->
        [k \in DOMAIN HEADERS |-> MigrateCell(HEADERS[k], data_rows[r], old_idx)]]

\* the content written by the migration's bulk update
MigratedContent(g) == <<HEADERS>> \o Migrate(GetAllValues(g))

\* _ensure_headers as one call without store failures
EnsureHeaders(g) ==
  LET current == RowValues(g, 1)
  IN  IF current = HEADERS THEN g
      ELSE IF NeedsMigration(current)
           THEN UpdateRange(ClearSheet, 1, MigratedContent(g))
      ELSE UpdateRange(g, 1, <<HEADERS>>)

(***************************************************************************)
(* Timestamps: ISO-8601 strings, formatted and parsed                      *)
(***************************************************************************)
TwoDigits(n) == IF n < 10 THEN "0" \o ToString(n) ELSE ToString(n)

\* wall-clock text of hour h of 2026-01-01
WallText(h) == "2026-01-01T" \o TwoDigits(h) \o ":00:00"

\* _now_iso(): datetime.now(tz).isoformat() at instant now
NowIso(now) == WallText(now + TzOffset) \o "+09:00"

\* str.strip() on the strings of the model: " " is the only one with blanks
Strip(s) == IF s = " " THEN "" ELSE s

NoneDt == [none |-> TRUE, wall |-> 0, minute |-> 0, naive |-> TRUE, off |-> 0]

\* every well-formed timestamp text of the model's day, with what
\* datetime.fromisoformat reads from it: the whole hours and the minute
\* before midnight (the time _date_to_iso gives a date), each with a UTC
\* offset or, naive, none, and the bare date, read as its midnight
IsoTexts ==
  LET zones == { [text |-> "", naive |-> TRUE, off |-> 0],
                 [text |-> "+09:00", naive |-> FALSE, off |-> TzOffset],
                 [text |-> "+00:00", naive |-> FALSE, off |-> 0] }
  IN  {<<WallText(h) \o z.text, h, 0, z>> : h \in 0..23, z \in zones}
        \cup {<<"2026-01-01T23:59:00" \o z.text, 23, 59, z>> : z \in zones}
        \cup {<<"2026-01-01", 0, 0, [text |-> "", naive |-> TRUE, off |-> 0]>>}

IsoParsed ==
  [txt \in {e[1] : e \in IsoTexts} |->
     LET e == CHOOSE e \in IsoTexts : e[1] = txt
     IN  [none |-> FALSE, wall |-> e[2], minute |-> e[3],
          naive |-> e[4].naive, off |-> e[4].off]]

\* _parse_iso: None for blank or malformed text
ParseIso(value) ==
  IF value = "" \/ Strip(value) = "" THEN NoneDt
  ELSE IF Strip(value) \in DOMAIN IsoParsed THEN IsoParsed[Strip(value)]
  ELSE NoneDt

\* the instant of a parsed timestamp, in minutes after 2026-01-01T00:00:00
\* UTC; a naive one gets the service timezone (dt.replace(tzinfo=tz)) before
\* it is compared
InstantOf(dt) ==
  (dt.wall - (IF dt.naive THEN TzOffset ELSE dt.off)) * 60 + dt.minute

(***************************************************************************)
(* Row codec                                                               *)
(***************************************************************************)
RowToDict(row, hmap) ==
  [h \in DOMAIN hmap |-> IF hmap[h] \in DOMAIN row THEN row[hmap[h]] ELSE ""]

DictToRow(data) == [k \in DOMAIN HEADERS |-> Get(data, HEADERS[k], "")]

(***************************************************************************)
(* CRUD                                                                    *)
(***************************************************************************)
\* str(uuid.uuid4()): the n-th identifier drawn; never drawn twice
NewId(n) == "u" \o ToString(n)

\* hmap.get("id", 0), as a 1-based column
IdCol(hmap) == Get(hmap, "id", 1)

\* len(row) > id_col and row[id_col] in ids
RowHasId(row, id_col, ids) == Len(row) >= id_col /\ row[id_col] \in ids

\* the sheet row number of the first data row whose id is in ids; 0 if none
FirstRowWithId(rows, id_col, ids) ==
  LET hits == {n \in 2..Len(rows) : RowHasId(rows[n], id_col, ids)}
  IN  IF hits = {} THEN 0 ELSE CHOOSE n \in hits : \A m \in hits : n <= m

\* the value fetch_all_todos returns
FetchAllTodos(g) ==
  LET s == EnsureHeaders(g)
      hmap == GetHeaderMap(s)
      rows == GetAllValues(s)
      id_col == IdCol(hmap)
      kept == SelectSeq(Tail(rows),
                LAMBDA row : row # <<>> /\ Len(row) >= id_col /\ row[id_col] # "")
  IN  [i \in DOMAIN kept |-> RowToDict(kept[i], hmap)]

\* the value fetch_todo_by_id returns: <<record>>, or <<>> for None
FetchTodoById(g, todo_id) ==
  LET s == EnsureHeaders(g)
      hmap == GetHeaderMap(s)
      rows == GetAllValues(s)
      n == FirstRowWithId(rows, IdCol(hmap), {todo_id})
  IN  IF n = 0 THEN <<>> ELSE <<RowToDict(rows[n], hmap)>>

CoercePriorityKeep(priority) == priority

\* priority if priority in VALID_PRIORITIES else "Medium"
CoercePriority(priority) ==
  IF priority \in VALID_PRIORITIES THEN priority ELSE "Medium"

CreateDataStampsUpdatedLater(id, title, description, priority, due_at, now) ==
  [id |-> id, title |-> title, description |-> description,
   priority |-> CoercePriority(priority), status |-> "open", due_at |-> due_at,
   created_at |-> NowIso(now), updated_at |-> NowIso(now + 1), done_at |-> "",
   last_reminded_at |-> ""]

\* the dict create_todo builds
CreateData(id, title, description, priority, due_at, now) ==
  [id |-> id, title |-> title, description |-> description,
   priority |-> CoercePriority(priority), status |-> "open", due_at |-> due_at,
   created_at |-> NowIso(now), updated_at |-> NowIso(now), done_at |-> "",
   last_reminded_at |-> ""]

\* the sheet after create_todo
CreateTodo(g, id, title, description, priority, due_at, now) ==
  AppendRow(EnsureHeaders(g),
            DictToRow(CreateData(id, title, description, priority, due_at, now)))

UpdateDataKeepsTitle(old, todo_id, title, description, priority, due_at, now) ==
  [id |-> todo_id, title |-> Get(old, "title", ""), description |-> description,
   priority |-> CoercePriority(priority), status |-> Get(old, "status", "open"),
   due_at |-> due_at, created_at |-> Get(old, "created_at", ""),
   updated_at |-> NowIso(now), done_at |-> Get(old, "done_at", ""),
   last_reminded_at |-> Get(old, "last_reminded_at", "")]

UpdateDataResetsStatus(old, todo_id, title, description, priority, due_at, now) ==
  [id |-> todo_id, title |-> title, description |-> description,
   priority |-> CoercePriority(priority), status |-> "open",
   due_at |-> due_at, created_at |-> Get(old, "created_at", ""),
   updated_at |-> NowIso(now), done_at |-> "",
   last_reminded_at |-> Get(old, "last_reminded_at", "")]

\* the dict update_todo builds from the row it found
UpdateData(old, todo_id, title, description, priority, due_at, now) ==
  [id |-> todo_id, title |-> title, description |-> description,
   priority |-> CoercePriority(priority), status |-> Get(old, "status", "open"),
   due_at |-> due_at, created_at |-> Get(old, "created_at", ""),
   updated_at |-> NowIso(now), done_at |-> Get(old, "done_at", ""),
   last_reminded_at |-> Get(old, "last_reminded_at", "")]

NewStatusAlwaysDone(old) == "done"

\* "done" if old.get("status") != "done" else "open"
NewStatus(old) == IF Get(old, "status", "") # "done" THEN "done" ELSE "open"

ToggleDataNeverClears(old, now) ==
  [h \in DOMAIN old \cup {"status", "done_at", "updated_at"} |->
     IF h = "status" THEN (IF Get(old, "status", "") # "done" THEN "done" ELSE "open")
     ELSE IF h = "done_at" THEN NowIso(now)
     ELSE IF h = "updated_at" THEN NowIso(now)
     ELSE old[h]]

ToggleDataForgetsReminder(old, now) ==
  [h \in DOMAIN old \cup {"status", "done_at", "updated_at"} |->
     IF h = "status" THEN NewStatus(old)
     ELSE IF h = "done_at" THEN (IF NewStatus(old) = "done" THEN NowIso(now) ELSE "")
     ELSE IF h = "updated_at" THEN NowIso(now)
     ELSE IF h = "last_reminded_at" THEN ""
     ELSE old[h]]

\* the dict toggle_status builds: {**old, status, done_at, updated_at}
ToggleData(old, now) ==
  [h \in DOMAIN old \cup {"status", "done_at", "updated_at"} |->
     IF h = "status" THEN NewStatus(old)
     ELSE IF h = "done_at" THEN (IF NewStatus(old) = "done" THEN NowIso(now) ELSE "")
     ELSE IF h = "updated_at" THEN NowIso(now)
     ELSE old[h]]

(***************************************************************************)
(* Reminder selector                                                       *)
(***************************************************************************)
InWindowStrict(now, due, hours) == now < due /\ due < now + hours

\* now <= due <= window_end, all in the same unit
InWindow(now, due, hours) == now <= due /\ due <= now + hours

RemindedRecentlyNever(now, last_at, hours) == FALSE

\* (now - last).total_seconds() < hours * 3600
RemindedRecently(now, last_at, hours) == now - last_at < hours

IsDueAnyStatus(t, hours, now) ==
  /\ ~ParseIso(Get(t, "due_at", "")).none
  /\ InWindow(now * 60, InstantOf(ParseIso(Get(t, "due_at", ""))), hours * 60)
  /\ LET lastdt == ParseIso(Get(t, "last_reminded_at", ""))
     IN  lastdt.none \/ ~RemindedRecently(now * 60, InstantOf(lastdt), hours * 60)

\* the test find_due_within applies to one record
IsDue(t, hours, now) ==
  /\ Get(t, "status", "") = "open"
  /\ ~ParseIso(Get(t, "due_at", "")).none
  /\ InWindow(now * 60, InstantOf(ParseIso(Get(t, "due_at", ""))), hours * 60)
  /\ LET lastdt == ParseIso(Get(t, "last_reminded_at", ""))
     IN  lastdt.none \/ ~RemindedRecently(now * 60, InstantOf(lastdt), hours * 60)

ReminderCellsAlsoUpdated(rows, id_col, reminded_col, ids, at) ==
  {<<n, c, at>> : n \in {n \in 2..Len(rows) : RowHasId(rows[n], id_col, ids)},
                  c \in {reminded_col, reminded_col - 2}}

\* the cells mark_reminded collects
ReminderCells(rows, id_col, reminded_col, ids, at) ==
  {<<n, reminded_col, at>> : n \in {n \in 2..Len(rows) : RowHasId(rows[n], id_col, ids)}}

(***************************************************************************)
(* Sheets the store may find: empty, canonical, legacy layouts,            *)
(* unrecognized layouts, headers shorter and longer than the canonical one *)
(***************************************************************************)
LegacyHeader == <<"id", "title", "body", "due_date", "created_at", "updated_at">>

RECURSIVE SeqsUpTo(_, _)
SeqsUpTo(S, n) ==
  IF n = 0 THEN {<<>>}
  ELSE LET shorter == SeqsUpTo(S, n - 1)
       IN  shorter \cup {Append(s, x) : s \in shorter, x \in S}

InitSheets ==
  LET headers ==
        { <<>>,
          HEADERS,
          LegacyHeader,
          <<"id", "title", "body", "status", "priority">>,
          <<"id", "title", "description", "body">>,
          <<"title", "id">>,
          <<"title", "body", "id">>,
          <<"id", "title">>,
          HEADERS \o <<"notes">>,
          HEADERS \o <<"title">>,
          <<"no", "title", "description", "priority", "status", "due_at",
            "created_at", "updated_at", "done_at", "last_reminded_at", "body">>,
          LegacyHeader \o <<"priority", "status", "done_at", "last_reminded_at", "notes">> }
      rows ==
        { <<"r1", "b1", "c1", "d1", "e1", "f1", "g1", "h1", "i1", "j1", "k1">>,
          <<"r2", "b2", "c2">>,
          <<"", "b3">> }
  IN  {TrimGrid(<<h>> \o d) : h \in headers, d \in SeqsUpTo(rows, MaxInitRows)}

(***************************************************************************)
(* _ensure_headers, one store call per step, with store failures           *)
(***************************************************************************)
EnsIdle ==
  [pc |-> "idle", run |-> 0, faults |-> 0, path |-> "", current |-> <<>>,
   staged |-> <<>>, pre |-> <<>>, after1 |-> <<>>]

\* the branch taken once row 1 is known (lines 141-151)
EnsBranch(current) ==
  IF current = HEADERS THEN "returned"
  ELSE IF NeedsMigration(current) THEN "get_all_values"
  ELSE "header_update"

EnsPath(current) ==
  IF current = HEADERS THEN "noop"
  ELSE IF NeedsMigration(current) THEN "migrate"
  ELSE "header"

EnsureCall ==
  /\ ens.pc \in {"idle", "returned", "raised"}
  /\ ens.run < MaxRuns
  /\ ens' = [ens EXCEPT !.pc = "row_values", !.run = @ + 1, !.pre = sheet,
                        !.path = "", !.current = <<>>, !.staged = <<>>,
                        !.after1 = IF ens.pc = "idle" THEN <<>> ELSE sheet]
  /\ UNCHANGED <<sheet, clock, nextId, last, ghost, calls>>

EnsureRowValues ==
  /\ ens.pc = "row_values"
  /\ LET current == RowValues(sheet, 1)
     IN  ens' = [ens EXCEPT !.pc = EnsBranch(current), !.path = EnsPath(current),
                            !.current = current]
  /\ UNCHANGED <<sheet, clock, nextId, last, ghost, calls>>

\* row_values(1) raises: the except clause continues with current = []
EnsureRowValuesFails ==
  /\ ens.pc = "row_values"
  /\ ens' = [ens EXCEPT !.pc = EnsBranch(<<>>), !.path = EnsPath(<<>>),
                        !.current = <<>>, !.faults = @ + 1]
  /\ UNCHANGED <<sheet, clock, nextId, last, ghost, calls>>

EnsureGetAllValues ==
  /\ ens.pc = "get_all_values"
  /\ ens' = [ens EXCEPT !.pc = "clear", !.staged = MigratedContent(sheet)]
  /\ UNCHANGED <<sheet, clock, nextId, last, ghost, calls>>

EnsureClear ==
  /\ ens.pc = "clear"
  /\ sheet' = ClearSheet
  /\ ens' = [ens EXCEPT !.pc = "update"]
  /\ UNCHANGED <<clock, nextId, last, ghost, calls>>

EnsureMigrateUpdate ==
  /\ ens.pc = "update"
  /\ sheet' = UpdateRange(sheet, 1, ens.staged)
  /\ ens' = [ens EXCEPT !.pc = "returned"]
  /\ UNCHANGED <<clock, nextId, last, ghost, calls>>

EnsureHeaderUpdate ==
  /\ ens.pc = "header_update"
  /\ sheet' = UpdateRange(sheet, 1, <<HEADERS>>)
  /\ ens' = [ens EXCEPT !.pc = "returned"]
  /\ UNCHANGED <<clock, nextId, last, ghost, calls>>

\* any store call outside the try block raises and the exception propagates
EnsureStoreCallFails ==
  /\ ens.pc \in {"get_all_values", "clear", "update", "header_update"}
  /\ ens' = [ens EXCEPT !.pc = "raised", !.faults = @ + 1]
  /\ UNCHANGED <<sheet, clock, nextId, last, ghost, calls>>

\* no call has returned yet
NoCall ==
  [op |-> "none", id |-> "", hours |-> 0, recs |-> <<>>, before |-> "", streak |-> 0,
   now |-> 0, seen |-> <<>>, stale |-> FALSE]

\* no toggle_status call has returned since another call began
NoRun == [id |-> "", before |-> "", n |-> 0]

NoGhost ==
  [marked |-> <<>>, due |-> <<>>, edited |-> FALSE, snap |-> <<>>,
   written |-> FALSE, acted |-> 0, sent |-> {}, window |-> 0, run |-> NoRun,
   begun |-> 0]

\* the requests the service works on at the same time
Procs == {1, 2}

\* a worker with no request: the locals of the store functions, unset.
\* alone, stale and entry are the observer's: no other request ran while
\* this one did, a row it read was written since, and the sheet as it was
\* when the request began (kept while the request is alone)
Idle ==
  [handler |-> "none", op |-> "none", pc |-> "idle", args |-> <<>>,
   alone |-> TRUE, stale |-> FALSE, staged |-> <<>>, hmap |-> <<>>,
   row_num |-> 0, old |-> <<>>, data |-> <<>>, cells |-> {}, todos |-> <<>>,
   seen |-> <<>>, now |-> 0, reminded_at |-> "", ids |-> {}, entry |-> <<>>]

InitSchema ==
  /\ sheet \in InitSheets
  /\ clock = 0
  /\ nextId = 0
  /\ last = NoCall
  /\ ens = EnsIdle
  /\ ghost = NoGhost
  /\ calls = [p \in Procs |-> Idle]

NextSchema ==
  \/ EnsureCall
  \/ EnsureRowValues
  \/ EnsureRowValuesFails
  \/ EnsureGetAllValues
  \/ EnsureClear
  \/ EnsureMigrateUpdate
  \/ EnsureHeaderUpdate
  \/ EnsureStoreCallFails

SpecSchema == InitSchema /\ [][NextSchema]_vars

(***************************************************************************)
(* Requests.  A request runs one route handler or one store function.      *)
(* Each of its steps is one round trip to the spreadsheet, one read of the *)
(* clock, one draw of an id or the push to LINE; the steps of requests     *)
(* that the service works on at the same time interleave.                  *)
(***************************************************************************)
\* Arguments the callers pass.  timed/instant say what the due_at text
\* means: the instant it denotes, if it denotes one.
CreateForms ==
  { [title |-> "Buy milk", description |-> "2 litres", priority |-> "High",
     due_at |-> NowIso(1), timed |-> TRUE, instant |-> 1],
    [title |-> "Pay rent", description |-> "", priority |-> "Urgent",
     due_at |-> "", timed |-> FALSE, instant |-> 0] }

UpdateForms ==
  { [title |-> "Buy bread", description |-> "", priority |-> "Top",
     due_at |-> "someday", timed |-> FALSE, instant |-> 0] }

\* due dates around the reminder window: aware in the service zone, naive,
\* aware in UTC, and not a timestamp at all
DueForms ==
  { [title |-> "Buy milk", description |-> "", priority |-> "High",
     due_at |-> NowIso(1), timed |-> TRUE, instant |-> 1],
    [title |-> "Pay rent", description |-> "", priority |-> "Medium",
     due_at |-> WallText(TzOffset), timed |-> TRUE, instant |-> 0],
    [title |-> "Call home", description |-> "", priority |-> "Low",
     due_at |-> WallText(2) \o "+00:00", timed |-> TRUE, instant |-> 2],
    [title |-> "Tidy up", description |-> "", priority |-> "Low",
     due_at |-> "someday", timed |-> FALSE, instant |-> 0] }

WindowHours == {1, 2}

\* reminded_at arguments: "" (the default: now) and an explicit naive text
DefaultStamp == [text |-> "", instant |-> 0]
ReminderStamps == {DefaultStamp, [text |-> WallText(TzOffset), instant |-> 0]}

IdsDrawn == {NewId(n) : n \in 1..nextId}
IdArgs == IdsDrawn \cup {"zz"}
LegacyIds == {"r1", "r2", "zz"}

\* what a store function returned
Returned(op, id, hours, recs) ==
  [NoCall EXCEPT !.op = op, !.id = id, !.hours = hours, !.recs = recs]

\* what a route handler answered: its status code
Responded(op, code) == Returned(op, "", 0, <<[result |-> code]>>)

\* bookkeeping of the observer, not of the program: a write made after
\* another actor moved columns, and the requests begun so far and since then
GhostWrite(g) == [g EXCEPT !.written = g.edited]
\* f with the keys in ks set to v
Noted(f, ks, v) == [k \in DOMAIN f \cup ks |-> IF k \in ks THEN v ELSE f[k]]

\* rows[1:]
DataRows(rows) == IF rows = <<>> THEN <<>> ELSE Tail(rows)

\* the list fetch_all_todos builds from the header map and the rows it read
TodosOf(rows, hmap) ==
  LET id_col == IdCol(hmap)
      kept == SelectSeq(DataRows(rows),
                LAMBDA row : row # <<>> /\ Len(row) >= id_col /\ row[id_col] # "")
  IN  [i \in DOMAIN kept |-> RowToDict(kept[i], hmap)]

\* [t["id"] for t in due_todos]
IdsOf(recs) == {recs[i]["id"] : i \in DOMAIN recs}

Busy(p) == calls[p].pc # "idle"
OthersIdle(p) == \A q \in Procs \ {p} : ~Busy(q)

\* a request is taken by the first worker that is free
Free(p) == ~Busy(p) /\ \A q \in Procs : q < p => Busy(q)

\* create_todo calls that have not drawn their id yet
Undrawn ==
  Cardinality({q \in Procs : calls[q].op = "create_todo" /\ calls[q].pc # "append_row"})

\* A request begins: worker p gets the locals rec.  alone says that no
\* other request is in progress while this one is; ghost.run ends unless
\* the request is a toggle_status call that begins with no other running.
Enter(p, rec, g) ==
  /\ Free(p)
  /\ ghost.begun < MaxRequests
  /\ calls' = [q \in Procs |->
                 IF q = p
                 THEN [rec EXCEPT !.alone = OthersIdle(p),
                                  !.entry = IF OthersIdle(p) THEN sheet ELSE <<>>]
                 ELSE IF Busy(q) THEN [calls[q] EXCEPT !.alone = FALSE, !.entry = <<>>]
                 ELSE calls[q]]
  /\ ghost' = [g EXCEPT
                 !.begun = @ + 1,
                 !.acted = IF g.edited THEN @ + 1 ELSE @,
                 !.run = IF rec.op = "toggle_status" /\ OthersIdle(p) THEN @ ELSE NoRun]
  /\ last' = NoCall
  /\ UNCHANGED <<sheet, clock, nextId, ens>>

\* a request that ends before its first store call
Refused(p, obs) ==
  /\ Free(p)
  /\ last' = obs
  /\ ghost' = [ghost EXCEPT !.run = NoRun]
  /\ UNCHANGED <<sheet, clock, nextId, ens, calls>>

\* the locals of the requests once p has returned after writing the rows
\* in written: a request that read one of them and has not yet written it
\* back now holds a stale copy
AfterWrite(p, written) ==
  [q \in Procs |->
     IF q = p THEN Idle
     ELSE IF calls[q].row_num \in written /\ calls[q].pc \in {"now", "update"}
          THEN [calls[q] EXCEPT !.stale = TRUE]
     ELSE calls[q]]

\* the column of a canonical header, and a cell read under it
ColOf(h) == CHOOSE k \in DOMAIN HEADERS : HEADERS[k] = h
Field(g, r, h) == CellAt(g, r, ColOf(h))

(***************************************************************************)
(* The calls as they begin                                                 *)
(***************************************************************************)
\* the locals of a request that is about to call _get_sheet
Call(handler, op, args) ==
  [Idle EXCEPT !.handler = handler, !.op = op, !.pc = "row_values", !.args = args]

Create(p, form) ==
  Enter(p, Call("create_todo", "create_todo", [form |-> form]), ghost)

Update(p, id, form) ==
  Enter(p, Call("update_todo", "update_todo", [id |-> id, form |-> form]), ghost)

Toggle(p, id) ==
  Enter(p, Call("toggle_status", "toggle_status", [id |-> id]), ghost)

\* mark_reminded returns at once for an empty list and reads the clock for
\* the default reminded_at before it opens the sheet
Mark(p, ids, at) ==
  IF ids = {} THEN Refused(p, Returned("mark", "", 0, <<>>))
  ELSE Enter(p, [Call("mark_reminded", "mark_reminded", [ids |-> ids, at |-> at])
                   EXCEPT !.ids = ids, !.now = clock,
                          !.reminded_at = IF at.text = "" THEN NowIso(clock) ELSE at.text],
             ghost)

FindDue(p, hours) ==
  Enter(p, Call("find_due_within", "find_due_within", [hours |-> hours]), ghost)

FetchById(p, id) ==
  Enter(p, Call("fetch_todo_by_id", "fetch_todo_by_id", [id |-> id]), ghost)

FetchAll(p) ==
  Enter(p, Call("fetch_all_todos", "fetch_all_todos", <<>>), ghost)

\* an hour passes; what the last call returned was observed at its own hour
Tick ==
  /\ clock < MaxClock
  /\ clock' = clock + 1
  /\ last' = NoCall
  /\ UNCHANGED <<sheet, nextId, ens, ghost, calls>>

(***************************************************************************)
(* The route handlers of the web layer (app.py) as they begin, with the    *)
(* push client (line_client.py).  The text of the reminder message is not  *)
(* kept: it does not reach the store.                                      *)
(***************************************************************************)
\* _date_to_iso: "" for a blank date, the end of that day in the service
\* zone for a YYYY-MM-DD date, the stripped text for anything else
DayEnd == [d \in {"2026-01-01"} |-> d \o "T23:59:00+09:00"]

DateToIso(date_str) ==
  IF date_str = "" \/ Strip(date_str) = "" THEN ""
  ELSE IF Strip(date_str) \in DOMAIN DayEnd THEN DayEnd[Strip(date_str)]
  ELSE Strip(date_str)

\* _validate_form: the list of errors is not empty
ValidateFormFails(title) == title = "" \/ Strip(title) = ""

PostForms ==
  { [title |-> t, description |-> "", priority |-> p, due_date |-> d] :
      t \in {"", " ", "Buy milk"}, p \in {"High", "Urgent"}, d \in {"", "2026-01-01"} }

\* titles create_todo may be called with that are empty or only blanks
BlankForms ==
  { [title |-> t, description |-> "", priority |-> "Medium", due_at |-> "",
     timed |-> FALSE, instant |-> 0] : t \in {"", " "} }

\* the arguments new_post and edit_post pass to the store: the stripped
\* fields of the form, the date through _date_to_iso
StoreArgs(post) ==
  [title |-> Strip(post.title), description |-> Strip(post.description),
   priority |-> Strip(post.priority), due_at |-> DateToIso(Strip(post.due_date))]

\* POST /new: the validation, then create_todo
NewPost(p, post) ==
  IF ValidateFormFails(Strip(post.title))
  THEN Refused(p, Responded("new_post", "400"))
  ELSE Enter(p, Call("new_post", "create_todo", [form |-> StoreArgs(post)]), ghost)

\* POST /edit/<id>: fetch_todo_by_id(id) comes first
EditPost(p, id, post) ==
  Enter(p, Call("edit_post", "fetch_todo_by_id", [id |-> id, post |-> post]), ghost)

\* POST /todos/<id>/toggle
ToggleTodo(p, id) ==
  Enter(p, Call("toggle_todo", "toggle_status", [id |-> id]), ghost)

\* CRON_AUTH_TOKEN of the service and X-CRON-TOKEN of the request
CronRequests ==
  { [expected |-> "secret", provided |-> "secret"],
    [expected |-> "secret", provided |-> "wrong"],
    [expected |-> "", provided |-> ""] }

\* not expected or provided != expected
Forbidden(req) ==
  Strip(req.expected) = "" \/ Strip(req.provided) # Strip(req.expected)

\* LINE_CHANNEL_ACCESS_TOKEN, LINE_USER_ID and what the push endpoint does
LineCalls ==
  { [token |-> "t", user_id |-> "u", http |-> "200"],
    [token |-> "", user_id |-> "u", http |-> "200"],
    [token |-> "t", user_id |-> " ", http |-> "200"],
    [token |-> "t", user_id |-> "u", http |-> "500"],
    [token |-> "t", user_id |-> "u", http |-> "exception"] }

\* send_push_message: True only for a 200 answer to a configured client
SendPushMessage(line) ==
  /\ Strip(line.token) # ""
  /\ Strip(line.user_id) # ""
  /\ line.http = "200"

\* the answer of the job; notified and sent are what the observer knows:
\* the ids find_due_within returned and whether the push was delivered
CronResponded(code, hours, count, ids, sent) ==
  Returned("cron", "", hours,
           <<[result |-> code, count |-> count, notified |-> ids, sent |-> sent]>>)

\* POST /cron/remind: the token check, then find_due_within(hours)
CronRemind(p, req, hours) ==
  IF Forbidden(req) THEN Refused(p, CronResponded("403", 0, 0, {}, FALSE))
  ELSE Enter(p, Call("cron_remind", "find_due_within", [hours |-> hours]),
             [ghost EXCEPT !.window = hours])

(***************************************************************************)
(* The steps of a request                                                  *)
(***************************************************************************)
\* a step that changes only the locals of request p
Local(p, rec) ==
  /\ calls' = [calls EXCEPT ![p] = rec]
  /\ last' = NoCall
  /\ UNCHANGED <<sheet, clock, nextId, ens, ghost>>

\* request p ends without a write in this step
Return(p, obs, g) ==
  /\ calls' = [calls EXCEPT ![p] = Idle]
  /\ last' = [obs EXCEPT !.stale = calls[p].stale]
  /\ ghost' = g
  /\ UNCHANGED <<sheet, clock, nextId, ens>>

\* what the caller sees when an exception leaves the store function: new_post
\* and edit_post catch it and answer 500, cron_remind answers 500 for
\* find_due_within and lets the exception of mark_reminded through
Raised(me) ==
  IF me.handler = "cron_remind"
  THEN CronResponded("500", me.args.hours, 0, IdsOf(me.todos), me.op = "mark_reminded")
  ELSE IF me.handler \in {"new_post", "edit_post", "toggle_todo"}
  THEN Responded(me.handler, "500")
  ELSE Responded(me.handler, "raised")

\* the step after _ensure_headers returns
AfterEnsure(op) == IF op = "create_todo" THEN "draw" ELSE "header_map"

\* the step after row 1 was read as current
EnsNext(current, op) ==
  IF EnsBranch(current) = "returned" THEN AfterEnsure(op)
  ELSE "ens_" \o EnsBranch(current)

\* _ensure_headers inside a request, one store call per step.  The sheet
\* may have been emptied by the migration of another request when
\* get_all_values is called: all_values[0] then raises on [] and is an
\* empty header on [[]].
EnsureStep(p) ==
  LET me == calls[p] IN
  /\ me.pc \in {"row_values", "ens_get_all_values", "ens_clear", "ens_update",
                "ens_header_update"}
  /\ CASE me.pc = "row_values" ->
            Local(p, [me EXCEPT !.pc = EnsNext(RowValues(sheet, 1), me.op)])
       [] me.pc = "ens_get_all_values" ->
            \E lib \in (IF sheet = <<>> THEN {"[]", "[[]]"} ELSE {"[[]]"}) :
               IF lib = "[]" THEN Return(p, Raised(me), ghost)
               ELSE Local(p, [me EXCEPT !.pc = "ens_clear",
                                        !.staged = IF sheet = <<>> THEN <<HEADERS>>
                                                   ELSE MigratedContent(sheet)])
       [] me.pc = "ens_clear" ->
            /\ sheet' = ClearSheet
            /\ calls' = [calls EXCEPT ![p].pc = "ens_update"]
            /\ last' = NoCall
            /\ UNCHANGED <<clock, nextId, ens, ghost>>
       [] me.pc = "ens_update" ->
            /\ sheet' = UpdateRange(sheet, 1, me.staged)
            /\ calls' = [calls EXCEPT ![p].pc = AfterEnsure(me.op), ![p].staged = <<>>]
            /\ last' = NoCall
            /\ UNCHANGED <<clock, nextId, ens, ghost>>
       [] me.pc = "ens_header_update" ->
            /\ sheet' = UpdateRange(sheet, 1, <<HEADERS>>)
            /\ calls' = [calls EXCEPT ![p].pc = AfterEnsure(me.op)]
            /\ last' = NoCall
            /\ UNCHANGED <<clock, nextId, ens, ghost>>

\* row_values(1) raises inside _ensure_headers: current = []
EnsureStepFails(p) ==
  /\ calls[p].pc = "row_values"
  /\ Local(p, [calls[p] EXCEPT !.pc = EnsNext(<<>>, calls[p].op)])

\* hmap = get_header_map(sheet)
ReadHeaderMap(p) ==
  Local(p, [calls[p] EXCEPT !.pc = "get_all_values", !.hmap = GetHeaderMap(sheet)])

\* create_todo after _ensure_headers: the clock and the id, then append_row
CreateStep(p) ==
  LET me == calls[p]
      form == me.args.form
      id == NewId(nextId + 1)
  IN
  /\ me.op = "create_todo"
  /\ me.pc \in {"draw", "append_row"}
  /\ CASE me.pc = "draw" ->
            /\ nextId' = nextId + 1
            /\ calls' = [calls EXCEPT
                           ![p].pc = "append_row", ![p].now = clock, ![p].ids = {id},
                           ![p].data = DictToRow(CreateData(id, form.title,
                                          form.description, form.priority,
                                          form.due_at, clock))]
            /\ last' = NoCall
            /\ UNCHANGED <<sheet, clock, ens, ghost>>
       [] me.pc = "append_row" ->
            /\ sheet' = AppendRow(sheet, me.data)
            /\ calls' = [calls EXCEPT ![p] = Idle]
            /\ last' = IF me.handler = "new_post" THEN Responded("new_post", "302")
                       ELSE Returned("create", CHOOSE i \in me.ids : TRUE, 0, <<>>)
            /\ ghost' = [GhostWrite(ghost) EXCEPT
                           !.due = IF "timed" \in DOMAIN form
                                   THEN Noted(@, me.ids, [timed |-> form.timed,
                                                          instant |-> form.instant])
                                   ELSE @]
            /\ UNCHANGED <<clock, nextId, ens>>

\* fetch_all_todos after _ensure_headers
FetchAllStep(p) ==
  LET me == calls[p] IN
  /\ me.op = "fetch_all_todos"
  /\ me.pc \in {"header_map", "get_all_values"}
  /\ CASE me.pc = "header_map" -> ReadHeaderMap(p)
       [] me.pc = "get_all_values" ->
            Return(p, Returned("fetch_all", "", 0, TodosOf(GetAllValues(sheet), me.hmap)),
                   ghost)

\* fetch_todo_by_id after _ensure_headers; in edit_post the validation and
\* update_todo follow
FetchByIdStep(p) ==
  LET me == calls[p]
      rows == GetAllValues(sheet)
      n == FirstRowWithId(rows, IdCol(me.hmap), {me.args.id})
  IN
  /\ me.op = "fetch_todo_by_id"
  /\ me.pc \in {"header_map", "get_all_values"}
  /\ CASE me.pc = "header_map" -> ReadHeaderMap(p)
       [] me.pc = "get_all_values" ->
            IF me.handler = "fetch_todo_by_id"
            THEN Return(p, Returned("fetch_by_id", me.args.id, 0,
                                    IF n = 0 THEN <<>>
                                    ELSE <<RowToDict(rows[n], me.hmap)>>), ghost)
            ELSE IF n = 0 THEN Return(p, Responded("edit_post", "302"), ghost)
            ELSE IF ValidateFormFails(Strip(me.args.post.title))
            THEN Return(p, Responded("edit_post", "400"), ghost)
            ELSE Local(p, [Call("edit_post", "update_todo",
                                [id |-> me.args.id, form |-> StoreArgs(me.args.post)])
                             EXCEPT !.alone = me.alone])

\* update_todo after _ensure_headers
UpdateStep(p) ==
  LET me == calls[p]
      form == me.args.form
      rows == GetAllValues(sheet)
      n == FirstRowWithId(rows, IdCol(me.hmap), {me.args.id})
      done == IF me.handler = "edit_post" THEN Responded("edit_post", "302")
              ELSE [Returned("update", me.args.id, 0,
                             IF me.row_num = 0 THEN <<>> ELSE <<form>>)
                      EXCEPT !.stale = me.stale]
  IN
  /\ me.op = "update_todo"
  /\ me.pc \in {"header_map", "get_all_values", "now", "update"}
  /\ CASE me.pc = "header_map" -> ReadHeaderMap(p)
       [] me.pc = "get_all_values" ->
            IF n = 0 THEN Return(p, done, ghost)
            ELSE Local(p, [me EXCEPT !.pc = "now", !.row_num = n,
                                     !.old = RowToDict(rows[n], me.hmap)])
       [] me.pc = "now" ->
            Local(p, [me EXCEPT
                        !.pc = "update", !.now = clock,
                        !.data = DictToRow(UpdateData(me.old, me.args.id, form.title,
                                             form.description, form.priority,
                                             form.due_at, clock))])
       [] me.pc = "update" ->
            /\ sheet' = UpdateRange(sheet, me.row_num, <<me.data>>)
            /\ calls' = AfterWrite(p, {me.row_num})
            /\ last' = done
            /\ ghost' = [GhostWrite(ghost) EXCEPT
                           !.due = IF "timed" \in DOMAIN form
                                   THEN Noted(@, {me.args.id},
                                              [timed |-> form.timed,
                                               instant |-> form.instant])
                                   ELSE [k \in DOMAIN @ \ {me.args.id} |-> @[k]]]
            /\ UNCHANGED <<clock, nextId, ens>>

\* ghost.run after a toggle_status call returned: runs of consecutive
\* calls on one record, with the status before the first call of the run
\* and the number of calls in it (1 or 2)
RunAfter(run, me, found) ==
  IF ~found \/ ~me.alone THEN NoRun
  ELSE IF run.id = me.args.id /\ run.n = 1 THEN [run EXCEPT !.n = 2]
  ELSE [id |-> me.args.id, before |-> Get(me.old, "status", ""), n |-> 1]

\* what the caller of toggle_status or toggle_todo sees
Toggled(me, run, result) ==
  IF me.handler = "toggle_todo" THEN Responded("toggle_todo", "302")
  ELSE [Returned("toggle", me.args.id, 0, <<[result |-> result]>>)
          EXCEPT !.before = run.before, !.streak = run.n, !.stale = me.stale]

\* toggle_status after _ensure_headers
ToggleStep(p) ==
  LET me == calls[p]
      rows == GetAllValues(sheet)
      n == FirstRowWithId(rows, IdCol(me.hmap), {me.args.id})
      run == RunAfter(ghost.run, me, me.row_num # 0)
  IN
  /\ me.op = "toggle_status"
  /\ me.pc \in {"header_map", "get_all_values", "now", "update"}
  /\ CASE me.pc = "header_map" -> ReadHeaderMap(p)
       [] me.pc = "get_all_values" ->
            IF n = 0 THEN Return(p, Toggled(me, NoRun, "None"),
                                 [ghost EXCEPT !.run = NoRun])
            ELSE Local(p, [me EXCEPT !.pc = "now", !.row_num = n,
                                     !.old = RowToDict(rows[n], me.hmap)])
       [] me.pc = "now" ->
            Local(p, [me EXCEPT !.pc = "update", !.now = clock,
                                !.data = DictToRow(ToggleData(me.old, clock))])
       [] me.pc = "update" ->
            /\ sheet' = UpdateRange(sheet, me.row_num, <<me.data>>)
            /\ calls' = AfterWrite(p, {me.row_num})
            /\ last' = Toggled(me, run, NewStatus(me.old))
            /\ ghost' = [GhostWrite(ghost) EXCEPT !.run = run]
            /\ UNCHANGED <<clock, nextId, ens>>

\* what the caller of mark_reminded sees; cron_remind answers 200 with the
\* number of records it named
Marked(me) ==
  IF me.handler = "cron_remind"
  THEN CronResponded("200", me.args.hours, Len(me.todos), IdsOf(me.todos), TRUE)
  ELSE Returned("mark", "", 0, <<>>)

\* mark_reminded after _ensure_headers; ghost.marked keeps the instant
\* written for each record
MarkStep(p) ==
  LET me == calls[p]
      rows == GetAllValues(sheet)
      id_col == IdCol(me.hmap)
      cells == IF "last_reminded_at" \in DOMAIN me.hmap
               THEN ReminderCells(rows, id_col, me.hmap["last_reminded_at"],
                                  me.args.ids, me.reminded_at)
               ELSE {}
  IN
  /\ me.op = "mark_reminded"
  /\ me.pc \in {"header_map", "get_all_values", "update_cells"}
  /\ CASE me.pc = "header_map" -> ReadHeaderMap(p)
       [] me.pc = "get_all_values" ->
            IF cells = {} THEN Return(p, Marked(me), ghost)
            ELSE Local(p, [me EXCEPT !.pc = "update_cells", !.cells = cells,
                                     !.ids = {rows[c[1]][id_col] : c \in cells}])
       [] me.pc = "update_cells" ->
            /\ sheet' = UpdateCells(sheet, me.cells)
            /\ calls' = AfterWrite(p, {c[1] : c \in me.cells})
            /\ last' = [Marked(me) EXCEPT !.stale = me.stale]
            /\ ghost' = [GhostWrite(ghost) EXCEPT
                           !.marked = Noted(@, me.ids,
                                            IF me.args.at.text = "" THEN me.now
                                            ELSE me.args.at.instant)]
            /\ UNCHANGED <<clock, nextId, ens>>

\* find_due_within: fetch_all_todos, then the clock and the filter; in
\* cron_remind an empty result is answered at once
FindDueStep(p) ==
  LET me == calls[p]
      hours == me.args.hours
      due == SelectSeq(me.todos, LAMBDA t : IsDue(t, hours, clock))
  IN
  /\ me.op = "find_due_within"
  /\ me.pc \in {"header_map", "get_all_values", "now"}
  /\ CASE me.pc = "header_map" -> ReadHeaderMap(p)
       [] me.pc = "get_all_values" ->
            Local(p, [me EXCEPT !.pc = "now",
                                !.todos = TodosOf(GetAllValues(sheet), me.hmap),
                                !.seen = [sheet |-> sheet, hmap |-> me.hmap,
                                          marked |-> ghost.marked]])
       [] me.pc = "now" ->
            IF me.handler = "find_due_within"
            THEN Return(p, [Returned("find", "", hours, due)
                              EXCEPT !.now = clock, !.seen = me.seen], ghost)
            ELSE IF due = <<>>
            THEN Return(p, CronResponded("200", hours, 0, {}, FALSE), ghost)
            ELSE Local(p, [me EXCEPT !.pc = "send", !.now = clock, !.todos = due])

\* cron_remind: send_push_message, then mark_reminded(ids) with its read of
\* the clock, or the answer 502
SendPush(p, line) ==
  LET me == calls[p]
      ids == IdsOf(me.todos)
  IN
  /\ me.pc = "send"
  /\ IF SendPushMessage(line)
     THEN /\ calls' = [calls EXCEPT ![p] =
                         [me EXCEPT !.op = "mark_reminded", !.pc = "row_values",
                                    !.args = [hours |-> me.args.hours, ids |-> ids,
                                              at |-> DefaultStamp],
                                    !.ids = ids, !.now = clock,
                                    !.reminded_at = NowIso(clock), !.hmap = <<>>]]
          /\ last' = NoCall
          /\ ghost' = [ghost EXCEPT !.sent = @ \cup ids]
          /\ UNCHANGED <<sheet, clock, nextId, ens>>
     ELSE Return(p, CronResponded("502", me.args.hours, 0, ids, FALSE), ghost)

\* a store call outside the try block of _ensure_headers raises
Fails(p) ==
  /\ calls[p].pc \in {"ens_get_all_values", "ens_clear", "ens_update",
                      "ens_header_update", "header_map", "get_all_values",
                      "append_row", "update", "update_cells"}
  /\ Return(p, Raised(calls[p]), [ghost EXCEPT !.run = NoRun])

(***************************************************************************)
(* Another actor edits the spreadsheet by hand: columns move as a whole,   *)
(* each header together with its cells                                     *)
(***************************************************************************)
SwapColumns(g, i, j) ==
  LET w == MaxOf({GridWidth(g), i, j})
      src(c) == IF c = i THEN j ELSE IF c = j THEN i ELSE c
  IN  TrimGrid([r \in DOMAIN g |-> [c \in 1..w |-> CellAt(g, r, src(c))]])

InsertColumn(g, i, name) ==
  LET w == MaxOf({GridWidth(g) + 1, i})
  IN  TrimGrid([r \in DOMAIN g |->
        [c \in 1..w |-> IF c < i THEN CellAt(g, r, c)
                        ELSE IF c = i THEN (IF r = 1 THEN name ELSE "")
                        ELSE CellAt(g, r, c - 1)]])

\* ghost.snap: what fetch_all_todos returned just before the columns moved;
\* what a request in progress has read is out of date from here on
ExternalEdit(g) ==
  /\ ~ghost.edited
  /\ Len(sheet) >= 2
  /\ sheet' = g
  /\ ghost' = [ghost EXCEPT !.edited = TRUE, !.snap = FetchAllTodos(sheet),
                             !.run = NoRun]
  /\ calls' = [q \in Procs |->
                 IF Busy(q) THEN [calls[q] EXCEPT !.stale = TRUE, !.alone = FALSE,
                                                  !.entry = <<>>]
                 ELSE calls[q]]
  /\ last' = NoCall
  /\ UNCHANGED <<clock, nextId, ens>>

(***************************************************************************)
(* Specifications.  Every one runs up to MaxRequests requests, two at a    *)
(* time, each one store call per step.                                     *)
(***************************************************************************)
InitStore ==
  /\ nextId = 0
  /\ last = NoCall
  /\ ens = EnsIdle
  /\ ghost = NoGhost
  /\ calls = [p \in Procs |-> Idle]

\* create, update, toggle_status and mark_reminded from an empty sheet
Init ==
  /\ sheet = <<>>
  /\ clock = 0
  /\ InitStore

Next ==
  \/ \E p \in Procs, form \in CreateForms :
        nextId + Undrawn < MaxCreates /\ Create(p, form)
  \/ \E p \in Procs, id \in IdArgs, form \in UpdateForms : Update(p, id, form)
  \/ \E p \in Procs, id \in IdArgs : Toggle(p, id)
  \/ \E p \in Procs, ids \in SUBSET IdArgs : Mark(p, ids, DefaultStamp)
  \/ \E p \in Procs : EnsureStep(p)
  \/ \E p \in Procs : CreateStep(p)
  \/ \E p \in Procs : UpdateStep(p)
  \/ \E p \in Procs : ToggleStep(p)
  \/ \E p \in Procs : MarkStep(p)

Spec == Init /\ [][Next]_vars

\* the reminder selector over time, on records due now or in an hour, given
\* with and without a zone
NextRemind ==
  \/ \E p \in Procs, form \in {f \in DueForms : f.timed /\ f.instant <= 1} :
        nextId + Undrawn < MaxReminderTodos /\ Create(p, form)
  \/ \E p \in Procs, id \in IdsDrawn, at \in ReminderStamps : Mark(p, {id}, at)
  \/ \E p \in Procs, hours \in WindowHours : FindDue(p, hours)
  \/ Tick
  \/ \E p \in Procs : EnsureStep(p)
  \/ \E p \in Procs : CreateStep(p)
  \/ \E p \in Procs : MarkStep(p)
  \/ \E p \in Procs : FindDueStep(p)

SpecRemind == Init /\ [][NextRemind]_vars

\* the window of the reminder selector over every kind of due_at
NextWindow ==
  \/ \E p \in Procs, form \in DueForms :
        nextId + Undrawn < MaxReminderTodos /\ Create(p, form)
  \/ \E p \in Procs, hours \in WindowHours : FindDue(p, hours)
  \/ Tick
  \/ \E p \in Procs : EnsureStep(p)
  \/ \E p \in Procs : CreateStep(p)
  \/ \E p \in Procs : FindDueStep(p)

SpecWindow == Init /\ [][NextWindow]_vars

\* sheets the store did not create: canonical, legacy and short header rows
\* over rows of any shape, one of them a record that is done
ForeignSheets ==
  LET full == <<"r1", "b1", "c1", "d1", "e1", "f1", "g1", "h1", "i1", "j1", "k1">>
      short == <<"r2", "b2", "c2">>
      blank == <<"", "b3">>
      done == <<"r2", "b4", "c4", "Low", "done", "f4", "g4", "h4", "i4", "j4">>
  IN  {TrimGrid(<<h>> \o d) :
         h \in {HEADERS, LegacyHeader, <<"id", "title">>},
         d \in {<<>>, <<full>>, <<full, short>>, <<blank, full>>, <<full, full>>,
                <<full, done>>}}

InitLegacy ==
  /\ sheet \in ForeignSheets
  /\ clock = 0
  /\ InitStore

\* toggle_status over a sheet the store did not create
NextLegacy ==
  \/ \E p \in Procs, id \in LegacyIds : Toggle(p, id)
  \/ \E p \in Procs : EnsureStep(p)
  \/ \E p \in Procs : ToggleStep(p)

SpecLegacy == InitLegacy /\ [][NextLegacy]_vars

\* update_todo over a sheet the store did not create
NextUpdate ==
  \/ \E p \in Procs, id \in LegacyIds, form \in UpdateForms : Update(p, id, form)
  \/ Tick
  \/ \E p \in Procs : EnsureStep(p)
  \/ \E p \in Procs : UpdateStep(p)

SpecUpdate == InitLegacy /\ [][NextUpdate]_vars

NextMark ==
  \/ \E p \in Procs, ids \in {{}, {"r1"}, {"r2", "zz"}, {"r1", "r2"}},
         at \in ReminderStamps : Mark(p, ids, at)
  \/ \E p \in Procs, id \in LegacyIds : FetchById(p, id)
  \/ \E p \in Procs : EnsureStep(p)
  \/ \E p \in Procs : MarkStep(p)
  \/ \E p \in Procs : FetchByIdStep(p)

SpecMark == InitLegacy /\ [][NextMark]_vars

\* create and update with every kind of priority argument; the title
\* carries the priority that was passed
PriorityArgs == VALID_PRIORITIES \cup {"Urgent", "", "high"}

PriorityForms ==
  { [title |-> "p:" \o p, description |-> "", priority |-> p, due_at |-> "",
     timed |-> FALSE, instant |-> 0] : p \in PriorityArgs }

NextPriority ==
  \/ \E p \in Procs, form \in PriorityForms :
        nextId + Undrawn < MaxCreates /\ Create(p, form)
  \/ \E p \in Procs, id \in IdsDrawn, 
         form \in {f \in PriorityForms : f.priority \in {"Low", "Urgent", "high"}} :
        Update(p, id, form)
  \/ \E p \in Procs, id \in IdsDrawn : Toggle(p, id)
  \/ \E p \in Procs : EnsureStep(p)
  \/ \E p \in Procs : CreateStep(p)
  \/ \E p \in Procs : UpdateStep(p)
  \/ \E p \in Procs : ToggleStep(p)

SpecPriority == Init /\ [][NextPriority]_vars


\* the sheet after two create_todo calls
TwoRecords ==
  CreateTodo(CreateTodo(<<>>, NewId(1), "Buy milk", "2 litres", "High", NowIso(1), 0),
             NewId(2), "Pay rent", "", "Medium", "", 0)

InitTwoRecords ==
  /\ sheet = TwoRecords
  /\ clock = 0
  /\ nextId = 2
  /\ last = NoCall
  /\ ens = EnsIdle
  /\ ghost = [NoGhost EXCEPT
               !.due = [id \in {NewId(1), NewId(2)} |->
                          IF id = NewId(1) THEN [timed |-> TRUE, instant |-> 1]
                          ELSE [timed |-> FALSE, instant |-> 0]]]
  /\ calls = [p \in Procs |-> Idle]

\* the reminder selector over records that are completed and reopened
NextDone ==
  \/ \E p \in Procs, id \in IdsDrawn : Toggle(p, id)
  \/ \E p \in Procs : Mark(p, {NewId(1)}, DefaultStamp)
  \/ \E p \in Procs, hours \in WindowHours : FindDue(p, hours)
  \/ Tick
  \/ \E p \in Procs : EnsureStep(p)
  \/ \E p \in Procs : ToggleStep(p)
  \/ \E p \in Procs : MarkStep(p)
  \/ \E p \in Procs : FindDueStep(p)

SpecDone == InitTwoRecords /\ [][NextDone]_vars

NextShared ==
  \/ \E c \in {<<2, 3>>, <<1, 2>>, <<5, 9>>} :
        ExternalEdit(SwapColumns(sheet, c[1], c[2]))
  \/ \E c \in {<<1, "notes">>, <<3, "">>, <<11, "notes">>} :
        ExternalEdit(InsertColumn(sheet, c[1], c[2]))
  \/ \E p \in Procs : ghost.acted < MaxCallsAfterEdit /\ FetchAll(p)
  \/ \E p \in Procs, id \in {NewId(1), "zz"} : ghost.acted < MaxCallsAfterEdit /\ FetchById(p, id)
  \/ \E p \in Procs, form \in UpdateForms : ghost.acted < MaxCallsAfterEdit /\ Update(p, NewId(1), form)
  \/ \E p \in Procs : ghost.acted < MaxCallsAfterEdit /\ Toggle(p, NewId(1))
  \/ \E p \in Procs : ghost.acted < MaxCallsAfterEdit /\ Mark(p, {NewId(1)}, DefaultStamp)
  \/ \E p \in Procs : EnsureStep(p)
  \/ \E p \in Procs : FetchAllStep(p)
  \/ \E p \in Procs : FetchByIdStep(p)
  \/ \E p \in Procs : UpdateStep(p)
  \/ \E p \in Procs : ToggleStep(p)
  \/ \E p \in Procs : MarkStep(p)

SpecShared == InitTwoRecords /\ [][NextShared]_vars

NextForm ==
  \/ \E p \in Procs, post \in PostForms :
        nextId + Undrawn < MaxCreates /\ NewPost(p, post)
  \/ \E p \in Procs, form \in BlankForms :
        nextId + Undrawn < MaxCreates /\ Create(p, form)
  \/ \E p \in Procs, id \in IdArgs, 
         post \in {f \in PostForms : f.priority = "High" /\ f.title # ""} :
        EditPost(p, id, post)
  \/ \E p \in Procs, id \in IdArgs : ToggleTodo(p, id)
  \/ \E p \in Procs : EnsureStep(p)
  \/ \E p \in Procs : EnsureStepFails(p)
  \/ \E p \in Procs : CreateStep(p)
  \/ \E p \in Procs : FetchByIdStep(p)
  \/ \E p \in Procs : UpdateStep(p)
  \/ \E p \in Procs : ToggleStep(p)
  \/ \E p \in Procs : Fails(p)

SpecForm == Init /\ [][NextForm]_vars

\* update requests on two records that overlap
NextOverlap ==
  \/ \E p \in Procs, id \in IdArgs,
         form \in { [title |-> "Buy bread", description |-> "white",
                     priority |-> "Low", due_at |-> NowIso(1),
                     timed |-> TRUE, instant |-> 1],
                    [title |-> "Buy rice", description |-> "brown",
                     priority |-> "Top", due_at |-> "someday",
                     timed |-> FALSE, instant |-> 0] } :
        Update(p, id, form)
  \/ \E p \in Procs : EnsureStep(p)
  \/ \E p \in Procs : UpdateStep(p)

SpecOverlap == InitTwoRecords /\ [][NextOverlap]_vars

\* update requests with toggle_status and mark_reminded requests that
\* complete between their steps
NextStale ==
  \/ \E p \in Procs, id \in IdsDrawn, form \in UpdateForms : Update(p, id, form)
  \/ \E p \in Procs, id \in IdsDrawn : Toggle(p, id)
  \/ \E p \in Procs, id \in IdsDrawn : Mark(p, {id}, DefaultStamp)
  \/ \E p \in Procs : EnsureStep(p)
  \/ \E p \in Procs : UpdateStep(p)
  \/ \E p \in Procs : ToggleStep(p)
  \/ \E p \in Procs : MarkStep(p)

SpecStale == InitTwoRecords /\ [][NextStale]_vars

\* the reminder job with every outcome of the store and of the push endpoint
NextCron ==
  \/ \E p \in Procs, req \in CronRequests, hours \in WindowHours : CronRemind(p, req, hours)
  \/ \E p \in Procs, line \in LineCalls : SendPush(p, line)
  \/ Tick
  \/ \E p \in Procs : EnsureStep(p)
  \/ \E p \in Procs : FindDueStep(p)
  \/ \E p \in Procs : MarkStep(p)
  \/ \E p \in Procs : Fails(p)

SpecCron == InitTwoRecords /\ [][NextCron]_vars

\* invocations of the job one after the other, with one window and a
\* working store
NextCronSeq ==
  \/ \E p \in Procs, req \in CronRequests, hours \in WindowHours :
        /\ OthersIdle(p)
        /\ ghost.window \in {0, hours}
        /\ CronRemind(p, req, hours)
  \/ \E p \in Procs, line \in LineCalls : SendPush(p, line)
  \/ Tick
  \/ \E p \in Procs : EnsureStep(p)
  \/ \E p \in Procs : FindDueStep(p)
  \/ \E p \in Procs : MarkStep(p)

SpecCronSeq == InitTwoRecords /\ [][NextCronSeq]_vars

(***************************************************************************)
(* Record store: claims checked under Spec                                 *)
(***************************************************************************)
\* C1: after any sequence of create, update, toggle_status and mark_reminded
\* calls from an empty sheet, every stored record has a non-empty done_at
\* exactly when its status is done.
C1_DoneAtIffDone ==
  \A r \in 2..Len(sheet) :
    Field(sheet, r, "id") # "" =>
      (Field(sheet, r, "done_at") # "" <=> Field(sheet, r, "status") = "done")

\* a record that was created, updated and then toggled to done
C1_Witness ==
  /\ last.op = "toggle"
  /\ \E r \in 2..Len(sheet) :
       /\ Field(sheet, r, "status") = "done"
       /\ Field(sheet, r, "done_at") # ""
       /\ Field(sheet, r, "title") = "Buy bread"

\* the request of worker p returns in this step
Returns(p) == calls[p].pc # "idle" /\ calls'[p].pc = "idle"

\* C7: a create call with a valid title, description, priority and due_at
\* appends exactly one row and leaves the rows that existed unchanged, those
\* of the sheet as it was before the call when no other request ran
\* meanwhile; fetch_by_id on the new id returns the same title, description,
\* priority and due_at, status open, created_at equal to updated_at, and
\* empty done_at and last_reminded_at.
C7_CreateThenFetch ==
  [][\A p \in Procs :
       (calls[p].handler = "create_todo" /\ calls[p].pc = "append_row" /\ Returns(p)) =>
         LET me == calls[p]
             form == me.args.form
             id == CHOOSE i \in me.ids : TRUE
             got == FetchTodoById(sheet', id)
         IN  /\ Len(sheet') = Len(sheet) + 1
             /\ \A r \in 2..Len(sheet) : sheet'[r] = sheet[r]
             /\ me.alone =>
                  /\ Len(sheet') = MaxOf({Len(me.entry), 1}) + 1
                  /\ \A r \in 2..Len(me.entry) : sheet'[r] = me.entry[r]
             /\ Len(got) = 1
             /\ got[1]["id"] = id
             /\ got[1]["title"] = form.title
             /\ got[1]["description"] = form.description
             /\ form.priority \in VALID_PRIORITIES => got[1]["priority"] = form.priority
             /\ got[1]["due_at"] = form.due_at
             /\ got[1]["status"] = "open"
             /\ got[1]["created_at"] = got[1]["updated_at"]
             /\ got[1]["created_at"] # ""
             /\ got[1]["done_at"] = ""
             /\ got[1]["last_reminded_at"] = ""]_vars

\* two create calls overlapped: the one that drew its id first appended its
\* row last, behind the row of the other, and fetch_by_id returns it as given
C7_Witness ==
  /\ last.op = "create"
  /\ last.id = NewId(1)
  /\ Len(sheet) = 3
  /\ Field(sheet, 2, "id") = NewId(2)
  /\ Field(sheet, 3, "id") = NewId(1)
  /\ LET got == FetchTodoById(sheet, NewId(1))
     IN  /\ Len(got) = 1
         /\ got[1]["title"] = "Buy milk"
         /\ got[1]["priority"] = "High"
         /\ got[1]["due_at"] = NowIso(1)
         /\ got[1]["status"] = "open"
         /\ got[1]["created_at"] = got[1]["updated_at"]

(***************************************************************************)
(* Toggle on sheets the store did not create: claims checked under         *)
(* SpecLegacy                                                              *)
(***************************************************************************)
\* the status of the record fetch_todo_by_id returned, "" for None
StatusOf(got) == IF got = <<>> THEN "" ELSE got[1]["status"]

\* C8 as stated: two consecutive toggle_status calls on a record return it
\* to the status it had before the first, whatever that status cell held.
C8_ToggleTwiceRestoresAnyStatus ==
  (last.op = "toggle" /\ last.streak = 2) =>
    StatusOf(FetchTodoById(sheet, last.id)) = last.before

\* C8 as amended: two consecutive toggle_status calls on a record whose
\* status is open or done return it to that status; a record whose status
\* cell holds any other value is done after the first call and open after
\* the second, and each call returns the status it stored.
C8_ToggleTwiceRestoresStatus ==
  (last.op = "toggle" /\ last.streak \in {1, 2}) =>
    LET status == StatusOf(FetchTodoById(sheet, last.id))
    IN  /\ last.recs[1].result = status
        /\ (last.streak = 2 /\ last.before \in VALID_STATUSES) =>
              status = last.before
        /\ (last.streak = 1 /\ last.before \notin VALID_STATUSES) =>
              status = "done"
        /\ (last.streak = 2 /\ last.before \notin VALID_STATUSES) =>
              status = "open"

\* a record that was done has been toggled twice in a row and is done
\* again, its done_at the time of the second call
C8_Witness ==
  /\ last.op = "toggle"
  /\ last.streak = 2
  /\ last.before = "done"
  /\ last.recs[1].result = "done"
  /\ FetchTodoById(sheet, last.id) # <<>>
  /\ FetchTodoById(sheet, last.id)[1]["status"] = "done"
  /\ FetchTodoById(sheet, last.id)[1]["done_at"] = NowIso(clock)

(***************************************************************************)
(* Frame of the writes.  A call is taken with the sheet as it was when it  *)
(* began, its header row the canonical one and its rows holding any        *)
(* values, and with no other request running before it returns.            *)
(***************************************************************************)
\* the data rows whose first cell is id, and the first of them
RowsWithId(g, id) == {r \in 2..Len(g) : CellAt(g, r, 1) = id}
RowOfId(g, id) == CHOOSE r \in RowsWithId(g, id) : \A q \in RowsWithId(g, id) : r <= q

\* every cell of g and h is the same except those of row n in the columns cols
SameExcept(g, h, n, cols) ==
  /\ Len(g) = Len(h)
  /\ \A r \in 1..Len(g) :
       \A c \in 1..MaxOf({GridWidth(g), GridWidth(h)}) :
         (r # n \/ c \notin cols) => CellAt(g, r, c) = CellAt(h, r, c)

HeaderCanonical(g) == RowValues(g, 1) = HEADERS

\* worker p returns from a call of op that ran alone on a sheet with the
\* canonical header row
ReturnsAlone(p, op) ==
  /\ calls[p].op = op
  /\ calls[p].alone
  /\ Returns(p)
  /\ HeaderCanonical(calls[p].entry)

\* C13: toggle_status on an existing id changes only status, done_at and
\* updated_at of that record (done_at = now when the new status is done,
\* empty when it is open) and returns the new status; every other field and
\* every other row is unchanged; on an id that matches no row it returns the
\* not-found value and leaves the store unchanged.
C13_ToggleFrame ==
  [][\A p \in Procs :
       ReturnsAlone(p, "toggle_status") =>
         LET me == calls[p]
             before == me.entry
             id == me.args.id
         IN  IF RowsWithId(before, id) = {}
             THEN sheet' = before /\ last'.recs[1].result = "None"
             ELSE LET n == RowOfId(before, id)
                      new == Field(sheet', n, "status")
                  IN  /\ SameExcept(before, sheet', n,
                                    {ColOf(h) : h \in {"status", "done_at", "updated_at"}})
                      /\ new = (IF Field(before, n, "status") = "done" THEN "open" ELSE "done")
                      /\ Field(sheet', n, "done_at") =
                           (IF new = "done" THEN NowIso(me.now) ELSE "")
                      /\ Field(sheet', n, "updated_at") = NowIso(me.now)
                      /\ last'.recs[1].result = new]_vars

\* a record has just been reopened: the call returned open, done_at is
\* empty, the other cells are as the sheet held them, another row exists
C13_Witness ==
  /\ HeaderCanonical(sheet)
  /\ last.op = "toggle"
  /\ last.streak = 2
  /\ last.recs[1].result = "open"
  /\ Len(sheet) >= 3
  /\ RowsWithId(sheet, last.id) # {}
  /\ LET n == RowOfId(sheet, last.id)
     IN  /\ Field(sheet, n, "status") = "open"
         /\ Field(sheet, n, "done_at") = ""
         /\ Field(sheet, n, "title") = "b1"
         /\ Field(sheet, n, "last_reminded_at") = "j1"

\* C12: an update on an existing id changes only title, description,
\* priority, due_at and updated_at of that record (to the arguments and to
\* now); id, status, created_at, done_at, last_reminded_at and every other
\* row keep their values; an update with an id that matches no row leaves
\* the store unchanged.
C12_UpdateFrame ==
  [][\A p \in Procs :
       ReturnsAlone(p, "update_todo") =>
         LET me == calls[p]
             before == me.entry
             id == me.args.id
             form == me.args.form
         IN  IF RowsWithId(before, id) = {} THEN sheet' = before
             ELSE LET n == RowOfId(before, id)
                  IN  /\ SameExcept(before, sheet', n,
                                    {ColOf(h) : h \in {"title", "description", "priority",
                                                       "due_at", "updated_at"}})
                      /\ Field(sheet', n, "title") = form.title
                      /\ Field(sheet', n, "description") = form.description
                      /\ Field(sheet', n, "due_at") = form.due_at
                      /\ Field(sheet', n, "updated_at") = NowIso(me.now)]_vars

\* a record has just been updated an hour into the run: new title and
\* updated_at, the cells the call does not name are as the sheet held them,
\* next to another row
C12_Witness ==
  /\ HeaderCanonical(sheet)
  /\ last.op = "update"
  /\ last.recs # <<>>
  /\ ~last.stale
  /\ Len(sheet) >= 3
  /\ \E r \in 2..Len(sheet) :
       /\ Field(sheet, r, "id") = last.id
       /\ Field(sheet, r, "title") = "Buy bread"
       /\ Field(sheet, r, "updated_at") = NowIso(1)
       /\ Field(sheet, r, "status") = "e1"
       /\ Field(sheet, r, "created_at") = "g1"
       /\ Field(sheet, r, "last_reminded_at") = "j1"

(***************************************************************************)
(* Frame of mark_reminded: claim checked under SpecMark                    *)
(***************************************************************************)
\* C14: mark_reminded(ids, at) sets last_reminded_at = at (now when at is
\* not given) on every record whose id is in ids and changes no other cell;
\* with an empty id set the store is not written at all.
C14_MarkFrame ==
  [][/\ (last'.op = "mark" /\ calls' = calls) => sheet' = sheet
     /\ \A p \in Procs :
          ReturnsAlone(p, "mark_reminded") =>
            LET me == calls[p]
                before == me.entry
                ids == me.args.ids
                stamp == IF me.args.at.text = "" THEN NowIso(me.now) ELSE me.args.at.text
                marked(r, c) == /\ r >= 2
                                /\ c = ColOf("last_reminded_at")
                                /\ CellAt(before, r, 1) \in ids
            IN  /\ Len(sheet') = Len(before)
                /\ \A r \in 1..Len(before) :
                     \A c \in 1..MaxOf({GridWidth(before), GridWidth(sheet'), 10}) :
                       CellAt(sheet', r, c) =
                         IF marked(r, c) THEN stamp ELSE CellAt(before, r, c)]_vars

\* one of two records carries the explicit reminder time, the other one and
\* the rest of the marked record are as the sheet held them
C14_Witness ==
  /\ HeaderCanonical(sheet)
  /\ last.op = "mark"
  /\ ~last.stale
  /\ \E r, q \in 2..Len(sheet) :
       /\ Field(sheet, r, "id") = "r1"
       /\ Field(sheet, r, "last_reminded_at") = WallText(TzOffset)
       /\ Field(sheet, r, "updated_at") = "h1"
       /\ Field(sheet, r, "status") = "e1"
       /\ Field(sheet, q, "id") = "r2"
       /\ Field(sheet, q, "last_reminded_at") = ""

(***************************************************************************)
(* Priority on write: claim checked under SpecPriority                     *)
(***************************************************************************)
\* C15: create or update called with a priority outside {High, Medium, Low}
\* stores "Medium" for that record, and called with a priority inside the
\* set stores it unchanged.  (Every create and update of SpecPriority writes
\* the priority it was called with into the title, next to the priority it
\* stores.)
C15_PriorityCoercion ==
  \A r \in 2..Len(sheet) :
    \A p \in PriorityArgs :
      Field(sheet, r, "title") = "p:" \o p =>
        Field(sheet, r, "priority") =
          (IF p \in {"High", "Medium", "Low"} THEN p ELSE "Medium")

\* a record has just been updated with priority "Urgent" and holds Medium,
\* next to one created with "Low" that holds Low
C15_Witness ==
  /\ last.op = "update"
  /\ last.recs # <<>>
  /\ last.recs[1].priority = "Urgent"
  /\ \E r, q \in 2..Len(sheet) :
    /\ Field(sheet, r, "id") = last.id
    /\ Field(sheet, r, "title") = "p:Urgent"
    /\ Field(sheet, r, "priority") = "Medium"
    /\ Field(sheet, q, "title") = "p:Low"
    /\ Field(sheet, q, "priority") = "Low"

(***************************************************************************)
(* Reminder selector: claims checked under SpecRemind, SpecWindow and      *)
(* SpecDone.  A find_due_within call is taken with the rows it read and    *)
(* the clock it read after them.                                           *)
(***************************************************************************)
ReturnedIds == {last.recs[i]["id"] : i \in DOMAIN last.recs}

\* field h of the record _row_to_dict makes of row r the call read, under
\* the header map the call read
Seen(r, h) ==
  Get(RowToDict(RowValues(last.seen.sheet, r), last.seen.hmap), h, "")

DueInside(id, now, hours) ==
  /\ ghost.due[id].timed
  /\ now <= ghost.due[id].instant
  /\ ghost.due[id].instant <= now + hours

\* C9: find_due_within(hours) returns every open record with empty
\* last_reminded_at whose due_at lies inside the window, and returns no
\* record that mark_reminded was called for when the call is made less than
\* hours after the recorded last_reminded_at.
C9_ReminderDedup ==
  last.op = "find" =>
    \A r \in 2..Len(last.seen.sheet) :
      LET id == Seen(r, "id")
      IN  id # "" =>
            /\ ( /\ Seen(r, "status") = "open"
                 /\ Seen(r, "last_reminded_at") = ""
                 /\ DueInside(id, last.now, last.hours) ) => id \in ReturnedIds
            /\ ( /\ id \in DOMAIN last.seen.marked
                 /\ last.now - last.seen.marked[id] < last.hours ) => id \notin ReturnedIds

\* a record due inside the window is left out by a find made an hour after
\* it was marked, with a window of two hours
C9_Witness ==
  /\ last.op = "find"
  /\ \E id \in DOMAIN last.seen.marked :
       /\ last.now > last.seen.marked[id]
       /\ last.now - last.seen.marked[id] < last.hours
       /\ DueInside(id, last.now, last.hours)
       /\ id \notin ReturnedIds

\* C10: for an open, never-reminded record, find_due_within returns it when
\* due_at equals now or now + hours, and does not return it when
\* due_at < now or due_at > now + hours.
C10_WindowBounds ==
  last.op = "find" =>
    \A r \in 2..Len(last.seen.sheet) :
      LET id == Seen(r, "id")
      IN  ( /\ id # ""
            /\ Seen(r, "status") = "open"
            /\ Seen(r, "last_reminded_at") = ""
            /\ ghost.due[id].timed ) =>
            LET due == ghost.due[id].instant
            IN  /\ (due = last.now \/ due = last.now + last.hours) => id \in ReturnedIds
                /\ (due < last.now \/ due > last.now + last.hours) => id \notin ReturnedIds

\* a never-reminded record due exactly at the end of the window is returned
C10_Witness ==
  /\ last.op = "find"
  /\ last.now > 0
  /\ \E r \in 2..Len(last.seen.sheet) :
       /\ Seen(r, "last_reminded_at") = ""
       /\ ghost.due[Seen(r, "id")].timed
       /\ ghost.due[Seen(r, "id")].instant = last.now + last.hours
       /\ Seen(r, "id") \in ReturnedIds

\* C11: find_due_within returns no record whose status is not open, whatever
\* its due_at and last_reminded_at; a record that is open (again), never
\* reminded and due inside the window is returned.
C11_OnlyOpenReturned ==
  last.op = "find" =>
    /\ \A i \in DOMAIN last.recs : last.recs[i]["status"] = "open"
    /\ \A r \in 2..Len(last.seen.sheet) :
         LET id == Seen(r, "id")
         IN  id # "" =>
               /\ Seen(r, "status") # "open" => id \notin ReturnedIds
               /\ ( /\ Seen(r, "status") = "open"
                    /\ Seen(r, "last_reminded_at") = ""
                    /\ DueInside(id, last.now, last.hours) ) => id \in ReturnedIds

\* a completed record that is due inside the window and was never reminded
\* is left out of the result
C11_Witness ==
  /\ last.op = "find"
  /\ \E r \in 2..Len(last.seen.sheet) :
       /\ Seen(r, "status") = "done"
       /\ Seen(r, "last_reminded_at") = ""
       /\ DueInside(Seen(r, "id"), last.now, last.hours)
       /\ Seen(r, "id") \notin ReturnedIds

(***************************************************************************)
(* Schema manager: claims checked under SpecSchema                         *)
(***************************************************************************)

\* C2: whenever _ensure_headers returns, row 1 of the sheet is exactly the
\* canonical header list, whatever the sheet held before the call.
C2_RowOneCanonicalOnReturn ==
  ens.pc = "returned" => RowValues(sheet, 1) = HEADERS

\* C3: a second run of _ensure_headers right after a first one (no store
\* call failing in either) leaves the header row and every data row exactly
\* as the first run left them.
C3_SecondRunChangesNothing ==
  (ens.pc = "returned" /\ ens.run >= 2 /\ ens.faults = 0) => sheet = ens.after1

\* the columns of the old header row that carry the name n
ColumnsNamed(hdr, n) == {i \in DOMAIN hdr : hdr[i] = n}

\* C4: after a migration every data row is at the position it had, and under
\* each canonical header it holds the value of the renamed old column if
\* there is one, else of the same-named old column if there is one, else
\* Medium for priority and open for status, else the empty string; for the
\* legacy header id, title, body, due_date, created_at, updated_at this gives
\* description = body, due_at = due_date, priority = Medium, status = open.
C4_MigrationMapping ==
  (ens.pc = "returned" /\ ens.path = "migrate") =>
    LET old == ens.pre
        hdr == RowValues(old, 1)
        renamed(h) == UNION {ColumnsNamed(hdr, o) :
                               o \in {o \in DOMAIN OLD_TO_NEW : OLD_TO_NEW[o] = h}}
    IN  /\ RowValues(sheet, 1) = HEADERS
        /\ Len(sheet) <= Len(old)
        /\ \A r \in 2..Len(old) : \A k \in DOMAIN HEADERS :
             LET h == HEADERS[k]
                 v == CellAt(sheet, r, k)
             IN  IF renamed(h) # {} THEN \E i \in renamed(h) : v = CellAt(old, r, i)
                 ELSE IF ColumnsNamed(hdr, h) # {}
                      THEN \E i \in ColumnsNamed(hdr, h) : v = CellAt(old, r, i)
                 ELSE IF h = "priority" THEN v = "Medium"
                 ELSE IF h = "status" THEN v = "open"
                 ELSE v = ""
        /\ hdr = LegacyHeader =>
             \A r \in 2..Len(old) :
               /\ CellAt(sheet, r, 3) = CellAt(old, r, 3)
               /\ CellAt(sheet, r, 6) = CellAt(old, r, 4)
               /\ CellAt(sheet, r, 4) = "Medium"
               /\ CellAt(sheet, r, 5) = "open"

\* a migration of the six-column legacy sheet has returned and the old body
\* of its first data row is now its description
C4_Witness ==
  /\ ens.pc = "returned"
  /\ ens.path = "migrate"
  /\ ens.current = LegacyHeader
  /\ Len(ens.pre) >= 2
  /\ CellAt(ens.pre, 2, 3) = "c1"
  /\ CellAt(sheet, 2, 3) = "c1"
  /\ CellAt(sheet, 2, 6) = "d1"

\* C5: while or after a migration runs, also when one of its store calls has
\* failed, the sheet holds either the complete old content or the complete
\* migrated content.
C5_MigrationAtomic ==
  (ens.path = "migrate" /\ ens.pc \in {"get_all_values", "clear", "update", "returned", "raised"})
    => \/ sheet = ens.pre
       \/ sheet = UpdateRange(ClearSheet, 1, MigratedContent(ens.pre))

\* C16: once schema-ensure has migrated a legacy sheet, every record with a
\* non-blank id has priority in {High, Medium, Low} and status in
\* {open, done}.
C16_EnumeratedValues ==
  (ens.pc = "returned" /\ ens.faults = 0 /\ ens.path = "migrate") =>
    \A r \in 2..Len(sheet) :
      CellAt(sheet, r, 1) # "" =>
        /\ Field(sheet, r, "priority") \in VALID_PRIORITIES
        /\ Field(sheet, r, "status") \in VALID_STATUSES

(***************************************************************************)
(* Store failures: claim checked under SpecSchema                          *)
(***************************************************************************)
\* C18: every failure of a backing-store call, the read of row 1 inside
\* schema-ensure included, propagates to the caller: the operation ends
\* there and makes no further store call.
C18_FailurePropagates ==
  [][ens'.faults > ens.faults => ens'.pc = "raised"]_vars

(***************************************************************************)
(* Column moves by another actor: claim checked under SpecShared           *)
(***************************************************************************)
SameFields(a, b) == \A h \in RangeOf(HEADERS) : Get(a, h, "") = Get(b, h, "")

\* C6: after another actor has moved columns (headers with their cells),
\* every later fetch_all, fetch_by_id, update, toggle_status or mark_reminded
\* still finds every record by its id with the values it had under each
\* field name: a read returns the records as they were, and after any of the
\* calls the fields no call modifies (id, created_at) are as they were.
\* The calls are those that began after the columns moved.
C6_ColumnMovesKeepAccess ==
  (ghost.edited /\ last.op \in {"fetch_all", "fetch_by_id", "update", "toggle", "mark"} /\ ~last.stale) =>
    /\ \A i \in DOMAIN ghost.snap :
         LET got == FetchTodoById(sheet, ghost.snap[i]["id"])
         IN  /\ Len(got) = 1
             /\ got[1]["created_at"] = ghost.snap[i]["created_at"]
    /\ (~ghost.written /\ last.op = "fetch_all") =>
         /\ Len(last.recs) = Len(ghost.snap)
         /\ \A i \in DOMAIN ghost.snap : SameFields(last.recs[i], ghost.snap[i])
    /\ (~ghost.written /\ last.op = "fetch_by_id") =>
         \A i \in DOMAIN ghost.snap :
           ghost.snap[i]["id"] = last.id =>
             Len(last.recs) = 1 /\ SameFields(last.recs[1], ghost.snap[i])

(***************************************************************************)
(* Validation of the title: claim checked under SpecForm                   *)
(***************************************************************************)
\* worker p takes a step of its request
Steps(p) == calls[p].pc # "idle" /\ calls'[p].pc # calls[p].pc

\* C17: a create with an empty or whitespace-only title is rejected before
\* any store mutation: no step of the call appends a row or changes one.
C17_BlankTitleRejected ==
  [][\A p \in Procs :
       ( /\ calls[p].op = "create_todo"
         /\ Steps(p)
         /\ ValidateFormFails(calls[p].args.form.title) ) =>
         DataRows(sheet') = DataRows(sheet)]_vars

(***************************************************************************)
(* Overlapping requests: claims checked under SpecOverlap and SpecStale    *)
(***************************************************************************)
\* C19: when two update calls on the same existing record interleave their
\* reads and writes in any order, each write leaves the record with the
\* title, description, priority and due_at of the call that makes it and
\* modifies no other row: once both are complete the record holds the
\* arguments of the update whose write was applied last.
C19_LastWriteWins ==
  [][\A p \in Procs :
       (calls[p].op = "update_todo" /\ calls[p].pc = "update" /\ Returns(p)) =>
         LET me == calls[p]
             n == me.row_num
             form == me.args.form
         IN  /\ Field(sheet', n, "id") = me.args.id
             /\ Field(sheet', n, "title") = form.title
             /\ Field(sheet', n, "description") = form.description
             /\ Field(sheet', n, "priority") =
                  (IF form.priority \in VALID_PRIORITIES THEN form.priority ELSE "Medium")
             /\ Field(sheet', n, "due_at") = form.due_at
             /\ Len(sheet') = Len(sheet)
             /\ \A r \in 1..Len(sheet) : r # n => sheet'[r] = sheet[r]]_vars

\* two updates of record u1 are complete; the write that came last was made
\* from a row read before the other update wrote, and the record holds the
\* arguments of that last write, the other record is as it was
C19_Witness ==
  /\ last.op = "update"
  /\ last.stale
  /\ last.id = NewId(1)
  /\ \A p \in Procs : ~Busy(p)
  /\ last.recs[1].title = "Buy bread"
  /\ Field(sheet, 2, "title") = "Buy bread"
  /\ Field(sheet, 2, "description") = "white"
  /\ Field(sheet, 2, "priority") = "Low"
  /\ Field(sheet, 2, "due_at") = NowIso(1)
  /\ sheet[3] = TwoRecords[3]

\* C20: the write of an update never changes status, done_at or
\* last_reminded_at of the record relative to the values stored immediately
\* before that write, also when a toggle_status or mark_reminded on the
\* record completed between the update's read and its write.
C20_UpdateKeepsStatusFields ==
  [][\A p \in Procs :
       (calls[p].op = "update_todo" /\ calls[p].pc = "update" /\ Returns(p)) =>
         \A h \in {"status", "done_at", "last_reminded_at"} :
           Field(sheet', calls[p].row_num, h) = Field(sheet, calls[p].row_num, h)]_vars

(***************************************************************************)
(* Reminder job: claims checked under SpecCron and SpecCronSeq             *)
(***************************************************************************)
\* sheets g and h hold the same last_reminded_at in every row, each read
\* under the header map of its sheet
ReminderCellsSame(g, h) ==
  LET reminded(s, r) ==
        Get(RowToDict(RowValues(s, r), GetHeaderMap(s)), "last_reminded_at", "")
  IN  \A r \in 2..MaxOf({Len(g), Len(h)}) : reminded(h, r) = reminded(g, r)

\* C21: the job marks records only after the push was sent: when the token
\* check fails, find_due_within fails, nothing is due or the send fails, no
\* step of the job changes a last_reminded_at cell; when the send succeeded,
\* the job returns with exactly the records find_due_within returned marked.
C21_MarkAfterSend ==
  [][/\ (last'.op = "cron" /\ ~last'.recs[1].sent) => ReminderCellsSame(sheet, sheet')
     /\ \A p \in Procs :
          (calls[p].handler = "cron_remind" /\ Steps(p)) =>
            /\ calls[p].op = "find_due_within" => ReminderCellsSame(sheet, sheet')
            /\ (Returns(p) /\ last'.recs[1].sent) =>
                 \A r \in 2..MaxOf({Len(sheet), Len(sheet')}) :
                   Field(sheet', r, "last_reminded_at") =
                     (IF Field(sheet, r, "id") \in last'.recs[1].notified
                      THEN calls[p].reminded_at
                      ELSE Field(sheet, r, "last_reminded_at"))]_vars

\* C22: under sequential invocations of the job with one window and a
\* clock that never goes back, no record (none is updated or toggled here)
\* is included in two notifications that were sent.
C22_NotifiedOnce ==
  [][\A p \in Procs :
       (calls[p].pc = "send" /\ calls'[p].op = "mark_reminded") =>
         IdsOf(calls[p].todos) \cap ghost.sent = {}]_vars
====
